---------------------------- MODULE Spec2Model ----------------------------
(***************************************************************************)
(* The session state machine of sway-lsp's core_v2 (session.rs) and the    *)
(* typed tree walker (traverse_typed_tree.rs).                             *)
(*                                                                         *)
(* A Session owns documents, manifest, token_map and diagnostics.  Its     *)
(* operations are initialize, parse_project (the reparse), store_document  *)
(* and remove_document.  Every method of Session that changes state takes  *)
(* `&mut self`, so a call holds the session exclusively from entry to      *)
(* return (or to the panic that unwinds it).  parse_project is modelled in *)
(* the steps its code takes (clear, stage 1, stage 2) so that the states   *)
(* in the middle of a reparse exist in the model.                          *)
(*                                                                         *)
(* External collaborators (the compiler's parse and check, the manifest    *)
(* and lock file resolution, the file system) are inputs: each call draws  *)
(* its result from a small set.                                            *)
(***************************************************************************)
EXTENDS Integers, Sequences, FiniteSets, TLC

---------------------------------------------------------------------------
(* Bounds of the model *)

\* URIs the protocol layer may name: 1..NumURIs
NumURIs == 2
\* document texts the file system may hold: 1..NumTexts
NumTexts == 2
\* the longest warning list / error list a compiler call returns
MaxDiags == 1

\* the longest node list the typed walker is run on by itself
MaxNodes == 2

URIs == 1..NumURIs
Texts == 1..NumTexts

---------------------------------------------------------------------------
(* Token map: HashMap<(Ident, Span), TokenType> *)

\* HashMap::new()
EmptyMap == [k \in {} |-> 0]

\* utils::token::to_ident_key: the key of an identifier is its name and span
to_ident_key(ident) == <<ident.name, ident.span>>

\* HashMap::insert: a later insert for the same key overwrites
hashmap_insert(map, key, value) ==
    [k \in (DOMAIN map) \cup {key} |-> IF k = key THEN value ELSE map[k]]

\* The `tokens: &mut TokenMap` a walker is handed: the map, and with it the
\* keys in the order the walker's inserts reach the map (a history of the
\* calls of tokens.insert, which the walkers never read).
Tokens(map) == [map |-> map, log |-> <<>>]

\* tokens.insert(key, value)
insert(tokens, key, value) ==
    [tokens EXCEPT !.map = hashmap_insert(@, key, value),
                   !.log = Append(@, key)]

\* a typed entry stored as an entry of the syntactic pass
TypedToken_as_syntactic(kind, node) ==
    [type |-> "SyntacticToken", kind |-> kind, node |-> node]

\* TokenType::TypedToken(TypedAstToken::<kind>(node.clone()))

TypedToken(kind, node) == [type |-> "TypedToken", kind |-> kind, node |-> node]

\* TokenType::Token(AstToken::<kind>(node.clone())), the syntactic entry
SyntacticToken(kind, node) == [type |-> "SyntacticToken", kind |-> kind, node |-> node]

\* Ident::new(span): the identifier whose text is what the span covers
Ident_new(span) == [name |-> span.text, span |-> span.at]

---------------------------------------------------------------------------
(* The typed tree walker, traverse_typed_tree.rs *)

RECURSIVE traverse_node(_, _)
RECURSIVE traverse_nodes(_, _)
RECURSIVE handle_declaration(_, _)
RECURSIVE handle_expression(_, _)
RECURSIVE handle_expressions(_, _)
RECURSIVE handle_arguments(_, _)
RECURSIVE handle_struct_fields(_, _)
RECURSIVE handle_methods(_, _)
RECURSIVE insert_idents(_, _, _)
RECURSIVE insert_named(_, _, _)
RECURSIVE handle_intrinsic_function(_, _)
RECURSIVE handle_while_loop(_, _)

\* `for ident in idents { tokens.insert(to_ident_key(ident), value) }`
insert_idents(idents, value, tokens) ==
    IF idents = <<>> THEN tokens
    ELSE insert_idents(Tail(idents), value,
                       insert(tokens, to_ident_key(Head(idents)), value))

\* `for item in items { tokens.insert(to_ident_key(&item.name), Kind(item.clone())) }`
insert_named(items, kind, tokens) ==
    IF items = <<>> THEN tokens
    ELSE insert_named(Tail(items), kind,
                      insert(tokens, to_ident_key(Head(items).name),
                             TypedToken(kind, Head(items))))

\* `for node in nodes { traverse_node(node, tokens) }`
traverse_nodes(nodes, tokens) ==
    IF nodes = <<>> THEN tokens
    ELSE traverse_nodes(Tail(nodes), traverse_node(Head(nodes), tokens))

\* `for exp in exps { handle_expression(exp, tokens) }`
handle_expressions(exps, tokens) ==
    IF exps = <<>> THEN tokens
    ELSE handle_expressions(Tail(exps), handle_expression(Head(exps), tokens))

traverse_node(node, tokens) ==
    CASE node.content = "ReturnStatement" -> handle_expression(node.expr, tokens)
      [] node.content = "Declaration" -> handle_declaration(node.declaration, tokens)
      [] node.content = "Expression" -> handle_expression(node.expr, tokens)
      [] node.content = "ImplicitReturnExpression" -> handle_expression(node.expr, tokens)
      [] node.content = "WhileLoop" -> handle_while_loop(node.while_loop, tokens)
      [] node.content = "SideEffect" -> tokens

\* the loop over the methods of an impl trait inserting a method's parameters
\* before it walks the method's body
handle_methods_parameters_first(methods, tokens) ==
    IF methods = <<>> THEN tokens
    ELSE LET method == Head(methods)
             t1 == insert(tokens, to_ident_key(method.name),
                          TypedToken("TypedFunctionDeclaration", method))
             t2 == insert_named(method.parameters, "TypedFunctionParameter", t1)
             t3 == traverse_nodes(method.body, t2)
             t4 == insert(t3, to_ident_key(Ident_new(method.return_type_span)),
                          TypedToken("TypedFunctionDeclaration", method))
         IN handle_methods(Tail(methods), t4)

\* the loop over the methods of an impl trait without the entry for the
\* method's return type
handle_methods_no_return_type(methods, tokens) ==
    IF methods = <<>> THEN tokens
    ELSE LET method == Head(methods)
             t1 == insert(tokens, to_ident_key(method.name),
                          TypedToken("TypedFunctionDeclaration", method))
             t2 == traverse_nodes(method.body, t1)
             t3 == insert_named(method.parameters, "TypedFunctionParameter", t2)
         IN handle_methods(Tail(methods), t3)

\* the loop over the methods of an impl trait
handle_methods(methods, tokens) ==
    IF methods = <<>> THEN tokens
    ELSE LET method == Head(methods)
             t1 == insert(tokens, to_ident_key(method.name),
                          TypedToken("TypedFunctionDeclaration", method))
             t2 == traverse_nodes(method.body, t1)
             t3 == insert_named(method.parameters, "TypedFunctionParameter", t2)
             t4 == insert(t3, to_ident_key(Ident_new(method.return_type_span)),
                          TypedToken("TypedFunctionDeclaration", method))
         IN handle_methods(Tail(methods), t4)

handle_declaration(declaration, tokens) ==
    CASE declaration.decl = "VariableDeclaration" ->
           handle_expression(declaration.body,
               insert(tokens, to_ident_key(declaration.name),
                      TypedToken("TypedDeclaration", declaration)))
      [] declaration.decl = "ConstantDeclaration" ->
           handle_expression(declaration.value,
               insert(tokens, to_ident_key(declaration.name),
                      TypedToken("TypedDeclaration", declaration)))
      [] declaration.decl = "FunctionDeclaration" ->
           LET t1 == insert(tokens, to_ident_key(declaration.name),
                            TypedToken("TypedFunctionDeclaration", declaration))
               t2 == traverse_nodes(declaration.body, t1)
           IN insert_named(declaration.parameters, "TypedFunctionParameter", t2)
      [] declaration.decl = "TraitDeclaration" ->
           insert_named(declaration.interface_surface, "TypedTraitFn",
               insert(tokens, to_ident_key(declaration.name),
                      TypedToken("TypedDeclaration", declaration)))
      [] declaration.decl = "StructDeclaration" ->
           insert_named(declaration.fields, "TypedStructField",
               insert(tokens, to_ident_key(declaration.name),
                      TypedToken("TypedDeclaration", declaration)))
      [] declaration.decl = "EnumDeclaration" ->
           insert_named(declaration.variants, "TypedEnumVariant",
               insert(tokens, to_ident_key(declaration.name),
                      TypedToken("TypedDeclaration", declaration)))
      [] declaration.decl = "Reassignment" ->
           insert(handle_expression(declaration.rhs, tokens),
                  to_ident_key(declaration.lhs_base_name),
                  TypedToken("TypedReassignment", declaration))
      [] declaration.decl = "ImplTrait" ->
           LET t1 == insert_idents(declaration.trait_name.prefixes,
                                   TypedToken("TypedDeclaration", declaration), tokens)
               t2 == insert(t1, to_ident_key(declaration.trait_name.suffix),
                            TypedToken("TypedDeclaration", declaration))
           IN handle_methods(declaration.methods, t2)
      [] declaration.decl = "AbiDeclaration" ->
           insert_named(declaration.interface_surface, "TypedTraitFn",
               insert(tokens, to_ident_key(declaration.name),
                      TypedToken("TypedDeclaration", declaration)))
      [] declaration.decl = "GenericTypeForFunctionScope" ->
           insert(tokens, to_ident_key(declaration.name),
                  TypedToken("TypedDeclaration", declaration))
      [] declaration.decl = "ErrorRecovery" -> tokens
      [] declaration.decl = "StorageDeclaration" ->
           insert_named(declaration.fields, "TypedStorageField", tokens)
      [] declaration.decl = "StorageReassignment" ->
           handle_expression(declaration.rhs,
               insert_named(declaration.fields,
                            "TypeCheckedStorageReassignDescriptor", tokens))

\* `for (ident, exp) in arguments { insert(ident -> exp); handle_expression(exp) }`
handle_arguments(arguments, tokens) ==
    IF arguments = <<>> THEN tokens
    ELSE LET ident == Head(arguments)[1]
             exp == Head(arguments)[2]
         IN handle_arguments(Tail(arguments),
                handle_expression(exp,
                    insert(tokens, to_ident_key(ident),
                           TypedToken("TypedExpression", exp))))

\* `for field in fields { insert(field.name -> field.value); handle_expression(field.value) }`
handle_struct_fields(fields, tokens) ==
    IF fields = <<>> THEN tokens
    ELSE LET field == Head(fields)
         IN handle_struct_fields(Tail(fields),
                handle_expression(field.value,
                    insert(tokens, to_ident_key(field.name),
                           TypedToken("TypedExpression", field.value))))

\* handle_expression walking the contents of an enum instantiation
handle_expression_enum_contents(expression, tokens) ==
    CASE expression.expression = "Literal" -> tokens
      [] expression.expression = "FunctionApplication" ->
           LET t1 == insert_idents(expression.call_path.prefixes,
                                   TypedToken("TypedExpression", expression), tokens)
               t2 == insert(t1, to_ident_key(expression.call_path.suffix),
                            TypedToken("TypedExpression", expression))
               t3 == handle_expressions(expression.contract_call_params, t2)
               t4 == handle_arguments(expression.arguments, t3)
           IN traverse_nodes(expression.function_body, t4)
      [] expression.expression = "LazyOperator" ->
           handle_expression(expression.rhs, handle_expression(expression.lhs, tokens))
      [] expression.expression = "VariableExpression" ->
           insert(tokens, to_ident_key(expression.name),
                  TypedToken("TypedExpression", expression))
      [] expression.expression = "Tuple" ->
           handle_expressions(expression.fields, tokens)
      [] expression.expression = "Array" ->
           handle_expressions(expression.contents, tokens)
      [] expression.expression = "ArrayIndex" ->
           handle_expression(expression.index, handle_expression(expression.prefix, tokens))
      [] expression.expression = "StructExpression" ->
           handle_struct_fields(expression.fields,
               insert(tokens, to_ident_key(expression.struct_name),
                      TypedToken("TypedExpression", expression)))
      [] expression.expression = "CodeBlock" ->
           traverse_nodes(expression.contents, tokens)
      [] expression.expression = "FunctionParameter" -> tokens
      [] expression.expression = "IfExp" ->
           LET t1 == handle_expression(expression.condition, tokens)
               t2 == handle_expression(expression.then, t1)
           IN IF expression.else = <<>> THEN t2
              ELSE handle_expression(expression.else[1], t2)
      [] expression.expression = "AsmExpression" -> tokens
      [] expression.expression = "StructFieldAccess" ->
           insert(handle_expression(expression.prefix, tokens),
                  to_ident_key(expression.field_to_access.name),
                  TypedToken("TypedExpression", expression))
      [] expression.expression = "TupleElemAccess" ->
           handle_expression(expression.prefix, tokens)
      [] expression.expression = "EnumInstantiation" ->
           handle_expressions(expression.contents, tokens)
      [] expression.expression = "AbiCast" ->
           LET t1 == insert_idents(expression.abi_name.prefixes,
                                   TypedToken("TypedExpression", expression), tokens)
               t2 == insert(t1, to_ident_key(expression.abi_name.suffix),
                            TypedToken("TypedExpression", expression))
           IN handle_expression(expression.address, t2)
      [] expression.expression = "StorageAccess" ->
           insert_idents([i \in DOMAIN expression.fields |-> expression.fields[i].name],
                         TypedToken("TypedExpression", expression), tokens)
      [] expression.expression = "IntrinsicFunction" ->
           handle_intrinsic_function(expression.kind, tokens)
      [] expression.expression = "AbiName" -> tokens
      [] expression.expression = "EnumTag" ->
           handle_expression(expression.exp, tokens)
      [] expression.expression = "UnsafeDowncast" ->
           insert(handle_expression(expression.exp, tokens),
                  to_ident_key(expression.variant.name),
                  TypedToken("TypedExpression", expression))

handle_expression(expression, tokens) ==
    CASE expression.expression = "Literal" -> tokens
      [] expression.expression = "FunctionApplication" ->
           LET t1 == insert_idents(expression.call_path.prefixes,
                                   TypedToken("TypedExpression", expression), tokens)
               t2 == insert(t1, to_ident_key(expression.call_path.suffix),
                            TypedToken("TypedExpression", expression))
               t3 == handle_expressions(expression.contract_call_params, t2)
               t4 == handle_arguments(expression.arguments, t3)
           IN traverse_nodes(expression.function_body, t4)
      [] expression.expression = "LazyOperator" ->
           handle_expression(expression.rhs, handle_expression(expression.lhs, tokens))
      [] expression.expression = "VariableExpression" ->
           insert(tokens, to_ident_key(expression.name),
                  TypedToken("TypedExpression", expression))
      [] expression.expression = "Tuple" ->
           handle_expressions(expression.fields, tokens)
      [] expression.expression = "Array" ->
           handle_expressions(expression.contents, tokens)
      [] expression.expression = "ArrayIndex" ->
           handle_expression(expression.index, handle_expression(expression.prefix, tokens))
      [] expression.expression = "StructExpression" ->
           handle_struct_fields(expression.fields,
               insert(tokens, to_ident_key(expression.struct_name),
                      TypedToken("TypedExpression", expression)))
      [] expression.expression = "CodeBlock" ->
           traverse_nodes(expression.contents, tokens)
      [] expression.expression = "FunctionParameter" -> tokens
      [] expression.expression = "IfExp" ->
           LET t1 == handle_expression(expression.condition, tokens)
               t2 == handle_expression(expression.then, t1)
           IN IF expression.else = <<>> THEN t2
              ELSE handle_expression(expression.else[1], t2)
      [] expression.expression = "AsmExpression" -> tokens
      [] expression.expression = "StructFieldAccess" ->
           insert(handle_expression(expression.prefix, tokens),
                  to_ident_key(expression.field_to_access.name),
                  TypedToken("TypedExpression", expression))
      [] expression.expression = "TupleElemAccess" ->
           handle_expression(expression.prefix, tokens)
      [] expression.expression = "EnumInstantiation" -> tokens
      [] expression.expression = "AbiCast" ->
           LET t1 == insert_idents(expression.abi_name.prefixes,
                                   TypedToken("TypedExpression", expression), tokens)
               t2 == insert(t1, to_ident_key(expression.abi_name.suffix),
                            TypedToken("TypedExpression", expression))
           IN handle_expression(expression.address, t2)
      [] expression.expression = "StorageAccess" ->
           insert_idents([i \in DOMAIN expression.fields |-> expression.fields[i].name],
                         TypedToken("TypedExpression", expression), tokens)
      [] expression.expression = "IntrinsicFunction" ->
           handle_intrinsic_function(expression.kind, tokens)
      [] expression.expression = "AbiName" -> tokens
      [] expression.expression = "EnumTag" ->
           handle_expression(expression.exp, tokens)
      [] expression.expression = "UnsafeDowncast" ->
           insert(handle_expression(expression.exp, tokens),
                  to_ident_key(expression.variant.name),
                  TypedToken("TypedExpression", expression))

handle_intrinsic_function(kind, tokens) ==
    CASE kind.kind = "SizeOfVal" -> handle_expression(kind.exp, tokens)
      [] kind.kind = "SizeOfType" -> tokens
      [] kind.kind = "IsRefType" -> tokens
      [] kind.kind = "GetStorageKey" -> tokens

handle_while_loop(while_loop, tokens) ==
    traverse_nodes(while_loop.body, handle_expression(while_loop.condition, tokens))

---------------------------------------------------------------------------
(* The syntactic tree walker, traverse_parse_tree::traverse_node.  Every   *)
(* identifier-bearing part of a node gets one syntactic entry, inserted    *)
(* before the walker recurses into that part's children.                   *)

RECURSIVE traverse_parse_node(_, _)
RECURSIVE traverse_parse_nodes(_, _)
RECURSIVE insert_parse_named(_, _, _)

insert_parse_named(items, kind, tokens) ==
    IF items = <<>> THEN tokens
    ELSE insert_parse_named(Tail(items), kind,
                            insert(tokens, to_ident_key(Head(items).name),
                                   SyntacticToken(kind, Head(items))))

traverse_parse_nodes(nodes, tokens) ==
    IF nodes = <<>> THEN tokens
    ELSE traverse_parse_nodes(Tail(nodes), traverse_parse_node(Head(nodes), tokens))

traverse_parse_node(node, tokens) ==
    CASE node.content = "VariableDeclaration" ->
           traverse_parse_node(node.body,
               insert(tokens, to_ident_key(node.name), SyntacticToken("Declaration", node)))
      [] node.content = "FunctionDeclaration" ->
           LET t1 == insert(tokens, to_ident_key(node.name),
                            SyntacticToken("FunctionDeclaration", node))
               t2 == insert_parse_named(node.parameters, "FunctionParameter", t1)
           IN traverse_parse_nodes(node.body, t2)
      [] node.content = "VariableExpression" ->
           insert(tokens, to_ident_key(node.name), SyntacticToken("Expression", node))
      [] node.content = "Literal" -> tokens

---------------------------------------------------------------------------
(* Values of the external collaborators *)

Id(name, span) == [name |-> name, span |-> span]

\* typed tree of `fn add(a, b) { a }`
TypedFnAdd ==
    [content |-> "Declaration",
     declaration |->
       [decl |-> "FunctionDeclaration", name |-> Id("add", 1),
        parameters |-> << [name |-> Id("a", 2)], [name |-> Id("b", 3)] >>,
        body |-> << [content |-> "ImplicitReturnExpression",
                     expr |-> [expression |-> "VariableExpression",
                               name |-> Id("a", 4)]] >>]]

\* typed tree of `let x = 1;`
TypedLetX ==
    [content |-> "Declaration",
     declaration |->
       [decl |-> "VariableDeclaration", name |-> Id("x", 5),
        body |-> [expression |-> "Literal"]]]

\* typed tree of `fn main() { add(x, 2) }`: the arguments of the application
\* are named by the parameters of `add`, and function_body is the body of `add`
TypedFnMain ==
    [content |-> "Declaration",
     declaration |->
       [decl |-> "FunctionDeclaration", name |-> Id("main", 10),
        parameters |-> <<>>,
        body |-> << [content |-> "ImplicitReturnExpression",
                     expr |-> [expression |-> "FunctionApplication",
                               call_path |-> [prefixes |-> <<>>,
                                              suffix |-> Id("add", 11)],
                               contract_call_params |-> <<>>,
                               arguments |->
                                 << <<Id("a", 2),
                                      [expression |-> "VariableExpression",
                                       name |-> Id("x", 12)]>>,
                                    <<Id("b", 3), [expression |-> "Literal"]>> >>,
                               function_body |-> TypedFnAdd.declaration.body]] >>]]

\* typed tree of `x = y;`
TypedReassignX ==
    [content |-> "Declaration",
     declaration |->
       [decl |-> "Reassignment", lhs_base_name |-> Id("x", 13),
        rhs |-> [expression |-> "VariableExpression", name |-> Id("y", 14)]]]

\* typed tree of `impl lib::Foo for S { fn bar(p) -> u64 { p } }`
TypedImplFoo ==
    [content |-> "Declaration",
     declaration |->
       [decl |-> "ImplTrait",
        trait_name |-> [prefixes |-> << Id("lib", 20) >>, suffix |-> Id("Foo", 21)],
        methods |->
          << [name |-> Id("bar", 22),
              parameters |-> << [name |-> Id("p", 23)] >>,
              return_type_span |-> [text |-> "u64", at |-> 24],
              body |-> << [content |-> "ImplicitReturnExpression",
                           expr |-> [expression |-> "VariableExpression",
                                     name |-> Id("p", 25)]] >>] >>]]

\* typed tree of `while c { x = y; }`
TypedWhile ==
    [content |-> "WhileLoop",
     while_loop |->
       [condition |-> [expression |-> "VariableExpression", name |-> Id("c", 30)],
        body |-> << TypedReassignX >>]]

\* typed tree of `struct S { f: u64 }`
TypedStructS ==
    [content |-> "Declaration",
     declaration |->
       [decl |-> "StructDeclaration", name |-> Id("S", 31),
        fields |-> << [name |-> Id("f", 32)] >>]]

\* the leaf expressions, as statements: `1`, a function parameter, `asm(r: x)
\* { }` and `E::V(x)`
TypedLiteral ==
    [content |-> "Expression", expr |-> [expression |-> "Literal"]]
TypedFunctionParameter ==
    [content |-> "Expression", expr |-> [expression |-> "FunctionParameter"]]
TypedAsmExpression ==
    [content |-> "Expression",
     expr |-> [expression |-> "AsmExpression",
               registers |-> << [name |-> Id("r", 33),
                                 initializer |-> [expression |-> "VariableExpression",
                                                  name |-> Id("x", 34)]] >>]]
TypedEnumInstantiation ==
    [content |-> "Expression",
     expr |-> [expression |-> "EnumInstantiation",
               enum_name |-> Id("E", 35), variant_name |-> Id("V", 36),
               contents |-> << [expression |-> "VariableExpression",
                                name |-> Id("x", 37)] >>]]

\* a variable expression, as the child of the expressions below
Var(name, span) == [expression |-> "VariableExpression", name |-> Id(name, span)]

\* typed tree of `trait T { fn f(); }`, `abi A { fn g(); }` and `enum N { W }`
TypedTraitT ==
    [content |-> "Declaration",
     declaration |->
       [decl |-> "TraitDeclaration", name |-> Id("T", 40),
        interface_surface |-> << [name |-> Id("f", 41)] >>]]
TypedAbiA ==
    [content |-> "Declaration",
     declaration |->
       [decl |-> "AbiDeclaration", name |-> Id("A", 42),
        interface_surface |-> << [name |-> Id("g", 43)] >>]]
TypedEnumN ==
    [content |-> "Declaration",
     declaration |->
       [decl |-> "EnumDeclaration", name |-> Id("N", 44),
        variants |-> << [name |-> Id("W", 45)] >>]]

\* typed tree of `storage { s: u64 }` and of `storage.s = x;`
TypedStorage ==
    [content |-> "Declaration",
     declaration |->
       [decl |-> "StorageDeclaration", fields |-> << [name |-> Id("s", 46)] >>]]
TypedStorageReassign ==
    [content |-> "Declaration",
     declaration |->
       [decl |-> "StorageReassignment", fields |-> << [name |-> Id("s", 47)] >>,
        rhs |-> Var("x", 48)]]

\* a generic type in function scope, an error recovery node and a side effect
\* (a `use` statement)
TypedGeneric ==
    [content |-> "Declaration",
     declaration |-> [decl |-> "GenericTypeForFunctionScope", name |-> Id("G", 49)]]
TypedErrorRecovery ==
    [content |-> "Declaration", declaration |-> [decl |-> "ErrorRecovery"]]
TypedSideEffect == [content |-> "SideEffect"]

\* typed tree of `return size_of_val(x);`
TypedReturn ==
    [content |-> "ReturnStatement",
     expr |-> [expression |-> "IntrinsicFunction",
               kind |-> [kind |-> "SizeOfVal", exp |-> Var("x", 50)]]]

\* typed trees of constants whose values are tuples of the expressions that
\* have children:
\* `const K = (a && b, [c], d[e], m.0, tag(t));`
TypedConstK ==
    [content |-> "Declaration",
     declaration |->
       [decl |-> "ConstantDeclaration", name |-> Id("K", 60),
        value |->
          [expression |-> "Tuple",
           fields |->
             << [expression |-> "LazyOperator",
                 lhs |-> Var("a", 61), rhs |-> Var("b", 62)],
                [expression |-> "Array", contents |-> << Var("c", 63) >>],
                [expression |-> "ArrayIndex",
                 prefix |-> Var("d", 64), index |-> Var("e", 65)],
                [expression |-> "TupleElemAccess", prefix |-> Var("m", 74)],
                [expression |-> "EnumTag", exp |-> Var("t", 79)] >>]]]

\* `const L = (P { q: g }, if h { i } else { j }, k.l, u as V);`
TypedConstL ==
    [content |-> "Declaration",
     declaration |->
       [decl |-> "ConstantDeclaration", name |-> Id("L", 82),
        value |->
          [expression |-> "Tuple",
           fields |->
             << [expression |-> "StructExpression", struct_name |-> Id("P", 66),
                 fields |-> << [name |-> Id("q", 67), value |-> Var("g", 68)] >>],
                [expression |-> "IfExp", condition |-> Var("h", 69),
                 then |-> Var("i", 70), else |-> << Var("j", 71) >>],
                [expression |-> "StructFieldAccess", prefix |-> Var("k", 72),
                 field_to_access |-> [name |-> Id("l", 73)]],
                [expression |-> "UnsafeDowncast", exp |-> Var("u", 80),
                 variant |-> [name |-> Id("V", 81)]] >>]]]

\* `const M = (abi(lib::B, n), storage.o, is_reference_type::<u64>(), B,
\*            { use lib; <error>; G; storage { s: u64 } storage.s = x; });`
TypedConstM ==
    [content |-> "Declaration",
     declaration |->
       [decl |-> "ConstantDeclaration", name |-> Id("M", 83),
        value |->
          [expression |-> "Tuple",
           fields |->
             << [expression |-> "AbiCast",
                 abi_name |-> [prefixes |-> << Id("lib", 75) >>,
                               suffix |-> Id("B", 76)],
                 address |-> Var("n", 77)],
                [expression |-> "StorageAccess",
                 fields |-> << [name |-> Id("o", 78)] >>],
                [expression |-> "IntrinsicFunction", kind |-> [kind |-> "IsRefType"]],
                [expression |-> "AbiName"],
                [expression |-> "CodeBlock",
                 contents |-> << TypedSideEffect, TypedErrorRecovery, TypedGeneric,
                                 TypedStorage, TypedStorageReassign >>] >>]]]

\* the typed programs (root.all_nodes) the type checker may return
TypedPrograms == { <<>>, <<TypedFnAdd>>, <<TypedLetX, TypedFnAdd>> }

\* syntactic tree of `fn add(a, b) { a }`
ParsedFnAdd ==
    [content |-> "FunctionDeclaration", name |-> Id("add", 1),
     parameters |-> << [name |-> Id("a", 2)], [name |-> Id("b", 3)] >>,
     body |-> << [content |-> "VariableExpression", name |-> Id("a", 4)] >>]

\* syntactic tree of `let y = z;`
ParsedLetY ==
    [content |-> "VariableDeclaration", name |-> Id("y", 6),
     body |-> [content |-> "VariableExpression", name |-> Id("z", 7)]]

\* the syntactic programs (root.tree.root_nodes) the parser may return
ParsePrograms == { <<ParsedFnAdd>>, <<ParsedLetY, ParsedFnAdd>> }

\* sequences over S of length at most n
SeqUpTo(S, n) == UNION { [1..k -> S] : k \in 0..n }

\* the typed nodes a node list handed to the typed walker is made of
TypedNodes ==
    { TypedFnAdd, TypedFnMain, TypedLetX, TypedReassignX, TypedImplFoo, TypedWhile,
      TypedStructS, TypedLiteral, TypedFunctionParameter, TypedAsmExpression,
      TypedEnumInstantiation, TypedTraitT, TypedAbiA, TypedEnumN, TypedReturn,
      TypedConstK, TypedConstL, TypedConstM }

\* the node lists the typed walker is run on: all_nodes of a typed program or
\* the contents of a body
TypedNodeLists == SeqUpTo(TypedNodes, MaxNodes)

\* CompileResult of sway_core::parse: value is None or Some(parse_program)
ParseResults ==
    [value : { <<>> } \cup { <<p>> : p \in ParsePrograms },
     warnings : SeqUpTo({"parse_warning"}, MaxDiags),
     errors : SeqUpTo({"parse_error"}, MaxDiags)]

\* CompileAstResult of pkg::check
CompileAstResults ==
    [tag : {"Success"}, typed_program : TypedPrograms,
     warnings : SeqUpTo({"check_warning"}, MaxDiags), errors : { <<>> }]
    \cup
    [tag : {"Failure"}, typed_program : { <<>> },
     warnings : SeqUpTo({"check_warning"}, MaxDiags),
     errors : SeqUpTo({"check_error"}, MaxDiags)]

\* capabilities::diagnostic::get_diagnostics: one Diagnostic per warning, then
\* one per error
get_diagnostics(warnings, errors) ==
    [i \in 1..(Len(warnings) + Len(errors)) |->
        IF i <= Len(warnings)
        THEN [severity |-> "warning", message |-> warnings[i]]
        ELSE [severity |-> "error", message |-> errors[i - Len(warnings)]]]

---------------------------------------------------------------------------
(* Session, session.rs *)

VARIABLES
    documents,    \* Session.documents: HashMap<String, TextDocument>, uri -> text
    manifest,     \* Session.manifest: Option<ManifestFile>
    token_map,    \* Session.token_map
    diagnostics,  \* Session.diagnostics: Vec<Diagnostic>
    pc,           \* where the call in progress stands: "idle" when none is
    alive,        \* FALSE once a panic has taken the session's owner down
    generation,   \* the token map as the last reparse that ran to its end left
                  \* it (the empty map of Session::new before any)
    call,         \* the call in progress or the last one: op, arg, result
    attempt       \* what the reparse in progress (or the last call, if it was
                  \* a reparse) was given and did

vars == <<documents, manifest, token_map, diagnostics, pc, alive, generation, call,
          attempt>>

None == "None"
Manifests == {"m1", "m2"}

\* a Result or a panic: the variant's name and its payload
Res(tag, value) == [tag |-> tag, value |-> value]

\* what TextDocument::build_from_path(uri) may return: Ok with the document
\* read from the file system, or Err; the variant of the error is not visible
\* at the call site and DocumentNotFound stands for it
BuildFromPathResults ==
    { Res("Ok", <<t>>) : t \in Texts } \cup { Res("DocumentNotFound", <<>>) }

\* what pkg::check may return: Err, or Ok(CompileAstResult)
CheckResults ==
    CompileAstResults \cup
    { [tag |-> "Err", typed_program |-> <<>>, warnings |-> <<>>, errors |-> <<>>] }

NotParsed == [value |-> <<>>, warnings |-> <<>>, errors |-> <<>>]
NotChecked == [tag |-> "NotCalled", typed_program |-> <<>>, warnings |-> <<>>,
               errors |-> <<>>]

\* the attempt record of a call that is no reparse
NoAttempt ==
    [prev_token_map |-> EmptyMap, stage1 |-> "None", parsed |-> NotParsed,
     stage2 |-> "None", checked |-> NotChecked]

\* Session::new
Init ==
    /\ documents = EmptyMap
    /\ manifest = None
    /\ token_map = EmptyMap
    /\ diagnostics = <<>>
    /\ pc = "idle"
    /\ alive = TRUE
    /\ generation = EmptyMap
    /\ call = [op |-> "new", arg |-> 0, result |-> Res("Ok", <<>>)]
    /\ attempt = NoAttempt

\* build_config reporting a missing manifest with the error of a failed
\* derivation
build_config_one_error(m, sbc) ==
    IF m # None /\ sbc = "Ok" THEN Res("Ok", <<>>) ELSE Res("BuildConfig", <<>>)

\* Session::build_config; sbc is what pkg::sway_build_config returns
build_config(m, sbc) ==
    IF m # None
    THEN IF sbc = "Ok" THEN Res("Ok", <<>>) ELSE Res("BuildConfig", <<>>)
    ELSE Res("ManifestFileNotFound", <<>>)

\* initialize assigning what the resolution gave, None when it failed
initialize_assigns_none(m, found) ==
    IF found \in Manifests THEN found ELSE None

\* Session::initialize; found is the manifest the workspace folder resolves to,
\* or the step that failed
initialize(m, found) ==
    IF found \in Manifests THEN found ELSE m

\* Session::parse_ast_to_tokens; parsed is what sway_core::parse returns
parse_ast_to_tokens(m, tokens, sbc, parsed) ==
    IF build_config(m, sbc).tag = "Ok"
    THEN [token_map |-> IF parsed.value # <<>>
                        THEN traverse_parse_nodes(parsed.value[1], Tokens(tokens)).map
                        ELSE tokens,
          result |-> Res("Ok", get_diagnostics(parsed.warnings, parsed.errors))]
    ELSE [token_map |-> tokens, result |-> Res("BuildConfigNotFound", <<>>)]

\* parse_ast_to_typed_tokens unwrapping the manifest instead of returning
\* BuildConfigNotFound when there is none
parse_ast_to_typed_tokens_unwraps_manifest(m, tokens, plan, checked) ==
    IF m = None \/ plan # "Ok" \/ checked.tag = "Err"
    THEN [token_map |-> tokens, result |-> Res("panic", <<>>)]
    ELSE IF checked.tag = "Failure"
    THEN [token_map |-> tokens,
          result |-> Res("FailedToParse",
                         get_diagnostics(checked.warnings, checked.errors))]
    ELSE [token_map |-> traverse_nodes(checked.typed_program, Tokens(tokens)).map,
          result |-> Res("Ok", get_diagnostics(checked.warnings, <<>>))]

\* parse_ast_to_typed_tokens walking only the first root node of the typed
\* program
parse_ast_to_typed_tokens_first_root(m, tokens, plan, checked) ==
    IF m = None
    THEN [token_map |-> tokens, result |-> Res("BuildConfigNotFound", <<>>)]
    ELSE IF plan # "Ok" \/ checked.tag = "Err"
    THEN [token_map |-> tokens, result |-> Res("panic", <<>>)]
    ELSE IF checked.tag = "Failure"
    THEN [token_map |-> tokens,
          result |-> Res("FailedToParse",
                         get_diagnostics(checked.warnings, checked.errors))]
    ELSE [token_map |-> IF checked.typed_program = <<>> THEN tokens
                        ELSE traverse_node(Head(checked.typed_program), Tokens(tokens)).map,
          result |-> Res("Ok", get_diagnostics(checked.warnings, <<>>))]

\* parse_ast_to_typed_tokens inserting a typed entry only under a key the map
\* does not hold yet
parse_ast_to_typed_tokens_keeps_existing(m, tokens, plan, checked) ==
    IF m = None
    THEN [token_map |-> tokens, result |-> Res("BuildConfigNotFound", <<>>)]
    ELSE IF plan # "Ok" \/ checked.tag = "Err"
    THEN [token_map |-> tokens, result |-> Res("panic", <<>>)]
    ELSE IF checked.tag = "Failure"
    THEN [token_map |-> tokens,
          result |-> Res("FailedToParse",
                         get_diagnostics(checked.warnings, checked.errors))]
    ELSE [token_map |->
            LET walked == traverse_nodes(checked.typed_program, Tokens(EmptyMap)).map
            IN [k \in (DOMAIN tokens) \cup (DOMAIN walked) |->
                  IF k \in DOMAIN tokens THEN tokens[k] ELSE walked[k]],
          result |-> Res("Ok", get_diagnostics(checked.warnings, <<>>))]

\* Session::parse_ast_to_typed_tokens; plan is what BuildPlan::from_lock_file
\* returns and checked what pkg::check returns; unwrap() of an Err panics
parse_ast_to_typed_tokens(m, tokens, plan, checked) ==
    IF m = None
    THEN [token_map |-> tokens, result |-> Res("BuildConfigNotFound", <<>>)]
    ELSE IF plan # "Ok" \/ checked.tag = "Err"
    THEN [token_map |-> tokens, result |-> Res("panic", <<>>)]
    ELSE IF checked.tag = "Failure"
    THEN [token_map |-> tokens,
          result |-> Res("FailedToParse",
                         get_diagnostics(checked.warnings, checked.errors))]
    ELSE [token_map |-> traverse_nodes(checked.typed_program, Tokens(tokens)).map,
          result |-> Res("Ok", get_diagnostics(checked.warnings, <<>>))]

\* parse_project entered without clearing the token map
parse_project_clear_keeps(tokens) == tokens

\* parse_project clearing the token map only when it holds a typed entry, so
\* that a map of syntactic entries alone is built upon
parse_project_clear_typed_only(tokens) ==
    IF \E k \in DOMAIN tokens : tokens[k].type = "TypedToken"
    THEN EmptyMap ELSE tokens

\* Session::parse_project, line 74
parse_project_clear(tokens) == EmptyMap

\* Session::parse_project, lines 76-85: the first stage
parse_project_stage1(docs, m, tokens, diags, uri, sbc, parsed) ==
    IF uri \in DOMAIN docs
    THEN LET r == parse_ast_to_tokens(m, tokens, sbc, parsed)
         IN [token_map |-> r.token_map,
             diagnostics |-> IF r.result.tag = "Ok" THEN r.result.value ELSE diags,
             stage1 |-> r.result.tag]
    ELSE [token_map |-> tokens, diagnostics |-> diags, stage1 |-> "Skipped"]

\* the second stage clearing the token map when the type check fails
parse_project_stage2_clears_on_failure(m, tokens, diags, plan, checked) ==
    LET r == parse_ast_to_typed_tokens(m, tokens, plan, checked)
    IN [token_map |-> IF r.result.tag = "FailedToParse" THEN EmptyMap ELSE r.token_map,
        diagnostics |-> IF r.result.tag \in {"Ok", "FailedToParse"}
                        THEN r.result.value ELSE diags,
        stage2 |-> r.result.tag]

\* the second stage appending the diagnostics of a failed type check to the
\* session's diagnostics
parse_project_stage2_appends(m, tokens, diags, plan, checked) ==
    LET r == parse_ast_to_typed_tokens(m, tokens, plan, checked)
    IN [token_map |-> r.token_map,
        diagnostics |-> IF r.result.tag = "Ok" THEN r.result.value
                        ELSE IF r.result.tag = "FailedToParse"
                        THEN diags \o r.result.value ELSE diags,
        stage2 |-> r.result.tag]

\* the second stage run only when the first stage left entries in the token map
parse_project_stage2_after_entries(m, tokens, diags, plan, checked) ==
    LET r == parse_ast_to_typed_tokens(m, tokens, plan, checked)
    IN IF tokens # EmptyMap
       THEN [token_map |-> r.token_map,
             diagnostics |-> IF r.result.tag \in {"Ok", "FailedToParse"}
                             THEN r.result.value ELSE diags,
             stage2 |-> r.result.tag]
       ELSE [token_map |-> tokens, diagnostics |-> diags, stage2 |-> "None"]

\* the second stage run only when the first stage produced a syntactic tree
parse_project_stage2_needs_tree(m, tokens, diags, plan, checked) ==
    LET r == parse_ast_to_typed_tokens(m, tokens, plan, checked)
    IN IF \E k \in DOMAIN tokens : tokens[k].type = "SyntacticToken"
       THEN [token_map |-> r.token_map,
             diagnostics |-> IF r.result.tag \in {"Ok", "FailedToParse"}
                             THEN r.result.value ELSE diags,
             stage2 |-> r.result.tag]
       ELSE [token_map |-> tokens, diagnostics |-> diags, stage2 |-> "None"]

\* Session::parse_project, lines 87-101: the second stage
parse_project_stage2(m, tokens, diags, plan, checked) ==
    LET r == parse_ast_to_typed_tokens(m, tokens, plan, checked)
    IN [token_map |-> r.token_map,
        diagnostics |-> IF r.result.tag \in {"Ok", "FailedToParse"}
                        THEN r.result.value ELSE diags,
        stage2 |-> r.result.tag]

\* store_document returning Ok when the document cannot be built
store_document_swallows_error(docs, uri, built) ==
    IF built.tag = "Ok"
    THEN [documents |-> hashmap_insert(docs, uri, built.value[1]),
          result |-> IF uri \in DOMAIN docs
                     THEN Res("DocumentAlreadyStored", <<>>)
                     ELSE Res("Ok", <<>>)]
    ELSE [documents |-> docs, result |-> Res("Ok", <<>>)]

\* Session::store_document; built is what TextDocument::build_from_path returns
store_document(docs, uri, built) ==
    IF built.tag = "Ok"
    THEN [documents |-> hashmap_insert(docs, uri, built.value[1]),
          result |-> IF uri \in DOMAIN docs
                     THEN Res("DocumentAlreadyStored", <<>>)
                     ELSE Res("Ok", <<>>)]
    ELSE [documents |-> docs, result |-> built]

\* remove_document reporting an absent URI with the wrong error variant
remove_document_wrong_error(docs, uri) ==
    IF uri \in DOMAIN docs
    THEN [documents |-> [u \in (DOMAIN docs) \ {uri} |-> docs[u]],
          result |-> Res("Ok", <<docs[uri]>>)]
    ELSE [documents |-> docs, result |-> Res("DocumentAlreadyStored", <<>>)]

\* remove_document looking the document up without taking it out of the store
remove_document_keeps(docs, uri) ==
    IF uri \in DOMAIN docs
    THEN [documents |-> docs, result |-> Res("Ok", <<docs[uri]>>)]
    ELSE [documents |-> docs, result |-> Res("DocumentNotFound", <<>>)]

\* Session::remove_document
remove_document(docs, uri) ==
    IF uri \in DOMAIN docs
    THEN [documents |-> [u \in (DOMAIN docs) \ {uri} |-> docs[u]],
          result |-> Res("Ok", <<docs[uri]>>)]
    ELSE [documents |-> docs, result |-> Res("DocumentNotFound", <<>>)]

\* a call can start when the session is alive and no `&mut self` call holds it
CanCall == alive /\ pc = "idle"

Initialize ==
    /\ CanCall
    /\ \E found \in {"NoWorkspaceFolder", "NoFilePath", "NoManifestFile"} \cup Manifests :
         /\ manifest' = initialize(manifest, found)
         /\ call' = [op |-> "initialize", arg |-> found,
                     result |-> Res("returned", <<>>)]
    /\ attempt' = NoAttempt
    /\ UNCHANGED <<documents, token_map, diagnostics, pc, alive, generation>>

\* build_config takes `&self`: it runs when no `&mut self` call holds the
\* session.  The action is one call of it by itself, as parse_ast_to_tokens
\* makes it at line 105.
BuildConfig ==
    /\ CanCall
    /\ \E sbc \in (IF manifest # None THEN {"Ok", "Err"} ELSE {"NotCalled"}) :
         call' = [op |-> "build_config", arg |-> sbc,
                  result |-> build_config(manifest, sbc)]
    /\ attempt' = NoAttempt
    /\ UNCHANGED <<documents, manifest, token_map, diagnostics, pc, alive, generation>>

StoreDocument ==
    /\ CanCall
    /\ \E uri \in URIs, built \in BuildFromPathResults :
         LET r == store_document(documents, uri, built)
         IN /\ documents' = r.documents
            /\ call' = [op |-> "store_document", arg |-> uri, result |-> r.result]
    /\ attempt' = NoAttempt
    /\ UNCHANGED <<manifest, token_map, diagnostics, pc, alive, generation>>

\* remove_document dropping the token map and the diagnostics with the document
RemoveDocument_drops_index ==
    /\ CanCall
    /\ \E uri \in URIs :
         LET r == remove_document(documents, uri)
         IN /\ documents' = r.documents
            /\ call' = [op |-> "remove_document", arg |-> uri, result |-> r.result]
            /\ token_map' = IF r.result.tag = "Ok" THEN EmptyMap ELSE token_map
            /\ diagnostics' = IF r.result.tag = "Ok" THEN <<>> ELSE diagnostics
    /\ attempt' = NoAttempt
    /\ UNCHANGED <<manifest, pc, alive, generation>>

RemoveDocument ==
    /\ CanCall
    /\ \E uri \in URIs :
         LET r == remove_document(documents, uri)
         IN /\ documents' = r.documents
            /\ call' = [op |-> "remove_document", arg |-> uri, result |-> r.result]
    /\ attempt' = NoAttempt
    /\ UNCHANGED <<manifest, token_map, diagnostics, pc, alive, generation>>

\* parse_project is entered and clears the token map
ParseProjectClear ==
    /\ CanCall
    /\ \E uri \in URIs :
         call' = [op |-> "parse_project", arg |-> uri, result |-> Res("running", <<>>)]
    /\ token_map' = parse_project_clear(token_map)
    /\ attempt' = [NoAttempt EXCEPT !.prev_token_map = token_map]
    /\ pc' = "stage1"
    /\ UNCHANGED <<documents, manifest, diagnostics, alive, generation>>

\* the first stage: build config, parse, syntactic walk
ParseProjectStage1 ==
    /\ alive /\ pc = "stage1"
    /\ \E sbc \in (IF call.arg \in DOMAIN documents /\ manifest # None
                   THEN {"Ok", "Err"} ELSE {"NotCalled"}) :
       \E parsed \in (IF sbc = "Ok" THEN ParseResults ELSE {NotParsed}) :
         LET r == parse_project_stage1(documents, manifest, token_map, diagnostics,
                                       call.arg, sbc, parsed)
         IN /\ token_map' = r.token_map
            /\ diagnostics' = r.diagnostics
            /\ attempt' = [attempt EXCEPT !.stage1 = r.stage1, !.parsed = parsed]
    /\ pc' = "stage2"
    /\ UNCHANGED <<documents, manifest, alive, generation, call>>

\* the second stage: build plan, type check, typed walk; then the call returns
\* or panics.  A panic unwinds out of parse_project and releases the session;
\* whether the session outlives it depends on its owner (a panic caught at the
\* task boundary leaves it in use, an aborting build ends it), so both happen.
ParseProjectStage2 ==
    /\ alive /\ pc = "stage2"
    /\ \E plan \in (IF manifest # None THEN {"Ok", "Err"} ELSE {"NotCalled"}) :
       \E checked \in (IF plan = "Ok" THEN CheckResults ELSE {NotChecked}) :
         LET r == parse_project_stage2(manifest, token_map, diagnostics, plan, checked)
         IN /\ token_map' = r.token_map
            /\ diagnostics' = r.diagnostics
            /\ attempt' = [attempt EXCEPT !.stage2 = r.stage2, !.checked = checked]
            /\ IF r.stage2 = "panic"
               THEN /\ call' = [call EXCEPT !.result = Res("panic", <<>>)]
                    /\ alive' \in BOOLEAN
                    /\ generation' = generation
               ELSE /\ call' = [call EXCEPT !.result = Res("returned", <<>>)]
                    /\ alive' = alive
                    /\ generation' = r.token_map
    /\ pc' = "idle"
    /\ UNCHANGED <<documents, manifest>>

Next ==
    \/ Initialize
    \/ BuildConfig
    \/ StoreDocument
    \/ RemoveDocument
    \/ ParseProjectClear
    \/ ParseProjectStage1
    \/ ParseProjectStage2

Spec == Init /\ [][Next]_vars

---------------------------------------------------------------------------
(* The typed walker by itself: `for node in nodes { traverse_node(node,     *)
(* tokens) }`, the loop of parse_ast_to_typed_tokens (session.rs:139-141),  *)
(* on every node list and on each token map stage 1 can have left.  The     *)
(* session is in the second stage of a reparse; attempt.checked holds the   *)
(* node list, call.arg counts the nodes walked, call.result the keys the    *)
(* walk of the last node inserted, in order, and attempt.prev_token_map is  *)
(* the token map before that walk.                                          *)

\* the token maps the first stage leaves to the second
Stage1Maps ==
    { EmptyMap } \cup
    { traverse_parse_nodes(p, Tokens(EmptyMap)).map : p \in ParsePrograms }

InitWalk ==
    /\ documents = EmptyMap
    /\ manifest = "m1"
    /\ token_map \in Stage1Maps
    /\ diagnostics = <<>>
    /\ pc = "stage2"
    /\ alive = TRUE
    /\ generation = EmptyMap
    /\ call = [op |-> "traverse_node", arg |-> 0, result |-> Res("running", <<>>)]
    /\ \E nodes \in TypedNodeLists :
         attempt = [NoAttempt EXCEPT
                      !.prev_token_map = token_map,
                      !.checked = [tag |-> "Success", typed_program |-> nodes,
                                   warnings |-> <<>>, errors |-> <<>>]]

\* one turn of a loop that walks a node and does not move on to the next
TraverseNode_same_node ==
    /\ pc = "stage2"
    /\ call.op = "traverse_node"
    /\ call.arg < Len(attempt.checked.typed_program)
    /\ LET node == attempt.checked.typed_program[call.arg + 1]
           walked == traverse_node(node, Tokens(token_map))
       IN /\ token_map' = walked.map
          /\ call' = [call EXCEPT !.result = Res("running", walked.log)]
          /\ attempt' = [attempt EXCEPT !.prev_token_map = token_map]
    /\ UNCHANGED <<documents, manifest, diagnostics, pc, alive, generation>>

\* one turn of the loop: traverse_node on the next node of the list
TraverseNode ==
    /\ pc = "stage2"
    /\ call.op = "traverse_node"
    /\ call.arg < Len(attempt.checked.typed_program)
    /\ LET node == attempt.checked.typed_program[call.arg + 1]
           walked == traverse_node(node, Tokens(token_map))
       IN /\ token_map' = walked.map
          /\ call' = [call EXCEPT !.arg = @ + 1,
                                  !.result = Res("running", walked.log)]
          /\ attempt' = [attempt EXCEPT !.prev_token_map = token_map]
    /\ UNCHANGED <<documents, manifest, diagnostics, pc, alive, generation>>

NextWalk == TraverseNode

SpecWalk == InitWalk /\ [][NextWalk]_vars

\* The second stage from the call of the type checker on: pkg::check is
\* running on the token map the first stage left
InitLive ==
    /\ documents = EmptyMap
    /\ manifest = "m1"
    /\ token_map \in Stage1Maps
    /\ diagnostics = <<>>
    /\ pc = "stage2"
    /\ alive = TRUE
    /\ generation = <<>>
    /\ call = [op |-> "check", arg |-> 0, result |-> Res("running", <<>>)]
    /\ attempt = [NoAttempt EXCEPT !.prev_token_map = token_map]

\* pkg::check returns CompileAstResult::Success with a typed program, and the
\* loop over its nodes starts
PkgCheck ==
    /\ pc = "stage2"
    /\ call.op = "check"
    /\ \E nodes \in TypedNodeLists :
         attempt' = [attempt EXCEPT
                       !.checked = [tag |-> "Success", typed_program |-> nodes,
                                    warnings |-> <<>>, errors |-> <<>>]]
    /\ call' = [call EXCEPT !.op = "traverse_node"]
    /\ UNCHANGED <<documents, manifest, token_map, diagnostics, pc, alive,
                   generation>>

NextLive == PkgCheck \/ TraverseNode

\* the compiler call returns, and the loop runs on one thread that nothing
\* suspends: a turn that can be taken is taken
SpecWalkLive ==
    InitLive /\ [][NextLive]_vars /\ WF_vars(PkgCheck) /\ WF_vars(TraverseNode)

---------------------------------------------------------------------------
(* The IR test runner, test/src/ir_generation/mod.rs: how `run` splits a    *)
(* test file into the region of the IR checks and the region of the ASM    *)
(* checks.  An input is a sequence of pieces, each a tag or a piece of     *)
(* text that holds no part of a tag; an offset is a number of bytes.  The  *)
(* call record holds the input and the regions.                            *)

\* the most pieces an input is made of
MaxPieces == 4

IrTag == "::check-ir::"
AsmTag == "::check-asm::"
Pieces == { IrTag, AsmTag, "fn" }
Inputs == SeqUpTo(Pieces, MaxPieces)

RECURSIVE input_len(_)
\* input.len(), in bytes
input_len(input) ==
    IF input = <<>> THEN 0 ELSE Len(Head(input)) + input_len(Tail(input))

\* the byte offset of piece i of the input
offset(input, i) == input_len(SubSeq(input, 1, i - 1))

\* input.find(tag): the offset of the first occurrence, or None
find(input, tag) ==
    LET at == { i \in DOMAIN input : input[i] = tag }
    IN IF at = {} THEN <<>>
       ELSE << offset(input, CHOOSE i \in at : \A j \in at : i <= j) >>

\* Option::unwrap_or
unwrap_or(option, default) == IF option = <<>> THEN default ELSE option[1]

ir_checks_begin_offs(input) == unwrap_or(find(input, IrTag), 0)
asm_checks_begin_offs(input) == find(input, AsmTag)

ir_checks_end_offs(input) ==
    LET asm == asm_checks_begin_offs(input)
    IN IF asm # <<>> /\ asm[1] > ir_checks_begin_offs(input)
       THEN asm[1]
       ELSE input_len(input)

\* end_offs of the closure that builds the ASM checker
end_offs(input, begin_offs) ==
    IF ir_checks_begin_offs(input) > begin_offs
    THEN ir_checks_begin_offs(input)
    ELSE input_len(input)

\* the range of &input[begin..end]
Slice(begin, end) == [begin |-> begin, end |-> end]

\* the text handed to the IR checker, and the text handed to the ASM checker
\* when there is an ASM tag
ir_checker(input) == Slice(ir_checks_begin_offs(input), ir_checks_end_offs(input))
asm_checker(input) ==
    LET asm == asm_checks_begin_offs(input)
    IN IF asm = <<>> THEN <<>>
       ELSE << Slice(asm[1], end_offs(input, asm[1])) >>

\* a test file has been read
InitRegions ==
    /\ documents = EmptyMap
    /\ manifest = None
    /\ token_map = EmptyMap
    /\ diagnostics = <<>>
    /\ pc = "idle"
    /\ alive = TRUE
    /\ generation = <<>>
    /\ attempt = NoAttempt
    /\ \E input \in Inputs :
         call = [op |-> "run", arg |-> input, result |-> Res("read", <<>>)]

\* the file is split into the two regions
SplitInput ==
    /\ call.op = "run"
    /\ call.result.tag = "read"
    /\ call' = [call EXCEPT
                  !.result = Res("split",
                                 << ir_checker(call.arg), asm_checker(call.arg) >>)]
    /\ UNCHANGED <<documents, manifest, token_map, diagnostics, pc, alive,
                   generation, attempt>>

NextRegions == SplitInput

SpecRegions == InitRegions /\ [][NextRegions]_vars

---------------------------------------------------------------------------
(* Properties *)

\* a reparse has ended: parse_project returned or panicked
AfterReparse == pc = "idle" /\ call.op = "parse_project"

\* a read-only query (`&self`) can read the session: it is alive and no
\* `&mut self` call holds it
CanRead == alive /\ pc = "idle"

\* C1: store_document on a URI that is already in the document store returns
\* DocumentAlreadyStored and leaves the document store as it was: the text
\* stored under the URI before the call is the one stored after it.  (Stated
\* for the calls whose document the file system yields; when build_from_path
\* fails the call returns that error before it looks at the store.)
C1_StoreOnStoredUriLeavesStore ==
    [][\A u \in URIs :
         (/\ call'.op = "store_document" /\ call'.arg = u
          /\ u \in DOMAIN documents
          /\ call'.result.tag # "DocumentNotFound")
         => (call'.result = Res("DocumentAlreadyStored", <<>>)
             /\ documents' = documents)]_vars

\* C2: remove_document on a URI that is not in the document store returns
\* DocumentNotFound and leaves the document store as it was.
C2_RemoveOnAbsentUri ==
    [][\A u \in URIs :
         (call'.op = "remove_document" /\ call'.arg = u /\ u \notin DOMAIN documents)
         => (call'.result = Res("DocumentNotFound", <<>>)
             /\ documents' = documents)]_vars

\* remove_document has failed on an absent URI while another document is stored
C2_Witness ==
    /\ call.op = "remove_document"
    /\ call.result.tag = "DocumentNotFound"
    /\ call.arg \notin DOMAIN documents
    /\ documents # EmptyMap

\* the map the syntactic walker builds of the tree the parser returned
Stage1Entries == traverse_parse_nodes(attempt.parsed.value[1], Tokens(EmptyMap)).map
\* the diagnostics of the parser's result
ParserDiagnostics == get_diagnostics(attempt.parsed.warnings, attempt.parsed.errors)
\* the diagnostics of the type checker's result
CheckDiagnostics == get_diagnostics(attempt.checked.warnings, attempt.checked.errors)
\* the first stage parsed the document
Parsed == attempt.stage1 = "Ok"

\* C3: after a reparse in which the document parsed into a syntactic tree and
\* the type check returned Failure, the token map holds every entry the
\* syntactic walker inserted in that reparse and holds no typed entry.
C3_Stage1EntriesSurviveFailure ==
    (AfterReparse /\ Parsed /\ attempt.parsed.value # <<>>
       /\ attempt.stage2 = "FailedToParse")
    => /\ \A k \in DOMAIN Stage1Entries :
            k \in DOMAIN token_map /\ token_map[k] = Stage1Entries[k]
       /\ \A k \in DOMAIN token_map : token_map[k].type # "TypedToken"

\* a reparse of a document that parsed and failed the type check has ended, with
\* a previous generation that held typed entries
C3_Witness ==
    /\ AfterReparse /\ Parsed /\ attempt.parsed.value # <<>>
    /\ attempt.stage2 = "FailedToParse"
    /\ DOMAIN Stage1Entries # {}
    /\ \E k \in DOMAIN attempt.prev_token_map :
         attempt.prev_token_map[k].type = "TypedToken"

\* C4: whenever a query can read the token map, the map is the complete result
\* of one reparse attempt: the one the last reparse that ran to its end built.
C4_ReaderSeesCompleteGeneration ==
    CanRead => token_map = generation

\* C5: after a reparse attempt that aborted, the token map is the previous
\* generation, unchanged.
C5_AbortKeepsPreviousGeneration ==
    (AfterReparse /\ call.result.tag = "panic")
    => token_map = attempt.prev_token_map

\* C6: reparse returns normally to its caller in every case, and the session
\* accepts further operations after it.
C6_ReparseAlwaysReturns ==
    AfterReparse => (call.result.tag = "returned" /\ alive)

\* the diagnostics the reparse attempt produced: those of its type check if it
\* returned one, else those of its parse if it parsed, else none
AttemptDiagnostics ==
    IF attempt.stage2 \in {"Ok", "FailedToParse"} THEN CheckDiagnostics
    ELSE IF Parsed THEN ParserDiagnostics
    ELSE <<>>

\* C7: after every reparse, whatever its outcome, the session's diagnostics are
\* exactly the diagnostics that reparse attempt produced.
C7_DiagnosticsAreTheAttempts ==
    AfterReparse => diagnostics = AttemptDiagnostics

\* C8: when the type check of a reparse returns Failure, the session's
\* diagnostics after the reparse are exactly those of the Failure; no parser
\* diagnostic of the same reparse remains.
C8_FailureReplacesDiagnostics ==
    (AfterReparse /\ attempt.stage2 = "FailedToParse")
    => /\ diagnostics = CheckDiagnostics
       /\ \A i \in DOMAIN diagnostics :
            diagnostics[i].message \notin {"parse_warning", "parse_error"}

\* a reparse has ended whose parse gave diagnostics and whose type check failed
\* with diagnostics
C8_Witness ==
    /\ AfterReparse /\ attempt.stage2 = "FailedToParse"
    /\ Parsed /\ ParserDiagnostics # <<>>
    /\ diagnostics # <<>>

\* C9: when the type check of a reparse returns Success, the typed walker has
\* run on every root node of the typed program (every key it writes for the
\* node holds a typed entry) and the session's diagnostics are those built of
\* the warnings with an empty error list.
C9_SuccessWalksEveryRoot ==
    (AfterReparse /\ attempt.stage2 = "Ok")
    => /\ diagnostics = get_diagnostics(attempt.checked.warnings, <<>>)
       /\ \A i \in DOMAIN attempt.checked.typed_program :
            \A k \in DOMAIN traverse_node(attempt.checked.typed_program[i], Tokens(EmptyMap)).map :
              k \in DOMAIN token_map /\ token_map[k].type = "TypedToken"

\* a reparse has ended whose type check succeeded with warnings on a typed
\* program of two root nodes
C9_Witness ==
    /\ AfterReparse /\ attempt.stage2 = "Ok"
    /\ Len(attempt.checked.typed_program) >= 2
    /\ attempt.checked.warnings # <<>>
    /\ diagnostics # <<>>

\* C10 as claimed: when the parser produces no syntactic tree for a stored
\* document under a valid build configuration, the second stage is not executed
\* and the session's diagnostics after the reparse are the parser's.
C10_NoTreeSkipsStage2 ==
    (AfterReparse /\ Parsed /\ attempt.parsed.value = <<>>)
    => (attempt.stage2 = "None" /\ diagnostics = ParserDiagnostics)

\* C10 as amended: when the parser produces no syntactic tree for a stored
\* document under a valid build configuration, the second stage is executed all
\* the same; the session's diagnostics after the reparse are those of the type
\* check when it returned Success or Failure, and the parser's only when the
\* second stage panicked.
C10_NoTreeStillRunsStage2 ==
    (AfterReparse /\ Parsed /\ attempt.parsed.value = <<>>)
    => /\ attempt.stage2 \in {"Ok", "FailedToParse", "panic"}
       /\ attempt.stage2 \in {"Ok", "FailedToParse"} => diagnostics = CheckDiagnostics
       /\ attempt.stage2 = "panic" => diagnostics = ParserDiagnostics

\* a reparse has ended whose parser gave errors and no tree and whose type check
\* succeeded with warnings
C10_Witness ==
    /\ AfterReparse /\ Parsed /\ attempt.parsed.value = <<>>
    /\ attempt.parsed.errors # <<>>
    /\ attempt.stage2 = "Ok"
    /\ diagnostics = CheckDiagnostics
    /\ diagnostics # ParserDiagnostics

\* the entries the walkers of the reparse attempt inserted: those of the
\* syntactic walker on the parser's tree, then those of the typed walker on the
\* typed program, each only if the attempt came to it
AttemptEntries ==
    LET t1 == IF Parsed /\ attempt.parsed.value # <<>>
              THEN traverse_parse_nodes(attempt.parsed.value[1], Tokens(EmptyMap))
              ELSE Tokens(EmptyMap)
        t2 == IF attempt.stage2 = "Ok"
              THEN traverse_nodes(attempt.checked.typed_program, t1)
              ELSE t1
    IN t2.map

\* C11: after every reparse that has ended, every entry of the token map was
\* inserted by a walker during that reparse; no key that an earlier reparse
\* left is in the map unless this reparse wrote it too.
C11_NoStaleEntry ==
    AfterReparse
    => \A k \in DOMAIN token_map :
         k \in DOMAIN AttemptEntries /\ token_map[k] = AttemptEntries[k]

\* a reparse has returned that left entries in the token map and dropped a key
\* the map held before it
C11_Witness ==
    /\ AfterReparse /\ call.result.tag = "returned"
    /\ token_map # EmptyMap
    /\ \E k \in DOMAIN attempt.prev_token_map : k \notin DOMAIN token_map

\* the tag of every key of a token map
EntryTags(tokens) == [k \in DOMAIN tokens |-> <<tokens[k].type, tokens[k].kind>>]

\* the token map a second parse_project of the same URI leaves when it is run
\* right after the reparse that has returned, on the same documents and
\* manifest and with the same results from the compiler
SecondReparse ==
    LET sbc == IF Parsed THEN "Ok" ELSE "Err"
        s0 == parse_project_clear(token_map)
        s1 == parse_project_stage1(documents, manifest, s0, diagnostics,
                                   call.arg, sbc, attempt.parsed)
        s2 == parse_project_stage2(manifest, s1.token_map, s1.diagnostics,
                                   "Ok", attempt.checked)
    IN s2.token_map

\* C12: reparse is idempotent on the token map: a second reparse of the same
\* URI with unchanged text, unchanged manifest and the same compiler results
\* leaves a token map with the same key set and the same tag for every key.
C12_ReparseIdempotent ==
    (AfterReparse /\ call.result.tag = "returned")
    => EntryTags(SecondReparse) = EntryTags(token_map)

\* a reparse has returned that began on a different token map and left both
\* syntactic and typed entries
C12_Witness ==
    /\ AfterReparse /\ call.result.tag = "returned"
    /\ attempt.prev_token_map # token_map
    /\ attempt.prev_token_map # EmptyMap
    /\ \E k \in DOMAIN token_map : token_map[k].type = "SyntacticToken"
    /\ \E k \in DOMAIN token_map : token_map[k].type = "TypedToken"

\* C14: build_config fails with ManifestFileNotFound exactly when the session
\* has no manifest, fails with BuildConfig exactly when it has one and
\* pkg::sway_build_config fails, returns Ok otherwise, and in each case leaves
\* the session's state as it was.
C14_BuildConfigOutcomes ==
    [][call'.op = "build_config"
       => /\ call'.result.tag = "ManifestFileNotFound" <=> manifest = None
          /\ call'.result.tag = "BuildConfig"
               <=> (manifest # None /\ call'.arg = "Err")
          /\ call'.result.tag = "Ok" <=> (manifest # None /\ call'.arg = "Ok")
          /\ UNCHANGED <<documents, manifest, token_map, diagnostics>>]_vars

\* build_config has failed to derive the configuration of a session that has a
\* manifest, a stored document and a token map with entries
C14_Witness ==
    /\ call.op = "build_config" /\ call.result.tag = "BuildConfig"
    /\ manifest # None
    /\ documents # EmptyMap /\ token_map # EmptyMap

\* C15: the document store holds one document for each URI that is in it, and
\* a URI is in it exactly when the last call on it that returned Ok was
\* store_document.  Stated step by step: no URI is in the store of a new
\* session, a store_document that returns Ok leaves its URI in the store, a
\* remove_document that returns Ok leaves it out, and no other step changes
\* whether a URI is in the store.
C15_PresentIffLastOkWasStore ==
    [][/\ call.op = "new" => documents = EmptyMap
       /\ documents' \in [DOMAIN documents' -> Texts]
       /\ DOMAIN documents' \subseteq URIs
       /\ \A u \in URIs :
            LET ok(op) == call'.op = op /\ call'.arg = u /\ call'.result.tag = "Ok"
            IN /\ ok("store_document") => u \in DOMAIN documents'
               /\ ok("remove_document") => u \notin DOMAIN documents'
               /\ ~(ok("store_document") \/ ok("remove_document"))
                    => (u \in DOMAIN documents' <=> u \in DOMAIN documents)]_vars

\* remove_document has returned Ok for one URI while another stays stored
C15_Witness ==
    /\ call.op = "remove_document" /\ call.result.tag = "Ok"
    /\ call.arg \notin DOMAIN documents
    /\ documents # EmptyMap

\* C16: initialize always returns normally; it binds the manifest when the
\* workspace folder is given, its URI converts to a path and the manifest is
\* resolved, and leaves the manifest as it was (None on a new session) in every
\* other case; it never changes documents, token map or diagnostics.
C16_InitializeBestEffort ==
    [][/\ call.op = "new" => manifest = None
       /\ call'.op = "initialize"
            => /\ call'.result = Res("returned", <<>>)
               /\ call'.arg \in Manifests => manifest' = call'.arg
               /\ call'.arg \notin Manifests => manifest' = manifest
               /\ UNCHANGED <<documents, token_map, diagnostics>>]_vars

\* initialize has failed to resolve a manifest on a session that was bound to
\* one before and holds a document and token entries
C16_Witness ==
    /\ call.op = "initialize" /\ call.arg = "NoManifestFile"
    /\ manifest \in Manifests
    /\ documents # EmptyMap /\ token_map # EmptyMap

\* the map the typed walker builds of the typed program the type check returned
TypedEntries == traverse_nodes(attempt.checked.typed_program, Tokens(EmptyMap)).map

\* C17: after a reparse in which both stages succeeded, every key that both the
\* syntactic and the typed walker inserted holds the typed walker's entry, and
\* a key only the syntactic walker inserted holds the syntactic entry: one
\* entry per key.
C17_TypedOverwritesSyntactic ==
    (AfterReparse /\ Parsed /\ attempt.parsed.value # <<>> /\ attempt.stage2 = "Ok")
    => /\ \A k \in (DOMAIN Stage1Entries) \cap (DOMAIN TypedEntries) :
            /\ token_map[k].type = "TypedToken"
            /\ token_map[k] = TypedEntries[k]
       /\ \A k \in (DOMAIN Stage1Entries) \ (DOMAIN TypedEntries) :
            token_map[k] = Stage1Entries[k]

\* a reparse has ended in which both stages succeeded, with a key both walkers
\* inserted and a key only the syntactic walker inserted
C17_Witness ==
    /\ AfterReparse /\ Parsed /\ attempt.parsed.value # <<>>
    /\ attempt.stage2 = "Ok"
    /\ (DOMAIN Stage1Entries) \cap (DOMAIN TypedEntries) # {}
    /\ (DOMAIN Stage1Entries) \ (DOMAIN TypedEntries) # {}

\* C21: a reparse on a session that has no manifest calls neither the parser
\* nor the type checker and runs no walker, returns normally, and leaves the
\* token map empty, whether or not the URI is in the document store.
C21_NoManifestReparse ==
    (AfterReparse /\ manifest = None)
    => /\ call.result.tag = "returned"
       /\ token_map = EmptyMap
       /\ attempt.stage1 = (IF call.arg \in DOMAIN documents
                             THEN "BuildConfigNotFound" ELSE "Skipped")
       /\ attempt.parsed = NotParsed
       /\ attempt.stage2 = "BuildConfigNotFound"
       /\ attempt.checked = NotChecked

\* a reparse of a stored URI has ended on a session that has no manifest
C21_Witness ==
    /\ AfterReparse /\ manifest = None
    /\ call.arg \in DOMAIN documents
    /\ attempt.stage1 = "BuildConfigNotFound"

\* C22: with a manifest, the second stage of a reparse runs whether or not the
\* URI is in the document store: for a URI that is not stored the first stage
\* is skipped, the second stage goes on to the build plan and the type check,
\* and when the type check succeeds the token map is what the typed walker
\* built, typed entries only.
C22_Stage2WithoutDocument ==
    (AfterReparse /\ manifest # None /\ call.arg \notin DOMAIN documents)
    => /\ attempt.stage1 = "Skipped"
       /\ attempt.stage2 \in {"Ok", "FailedToParse", "panic"}
       /\ call.result.tag = "returned"
            => attempt.checked.tag \in {"Success", "Failure"}
       /\ attempt.stage2 = "Ok"
            => /\ token_map = TypedEntries
               /\ \A k \in DOMAIN token_map : token_map[k].type = "TypedToken"

\* a reparse of a URI that is not stored has ended with a successful type
\* check, while another document is stored
C22_Witness ==
    /\ AfterReparse /\ manifest # None
    /\ call.arg \notin DOMAIN documents
    /\ documents # EmptyMap
    /\ attempt.stage2 = "Ok"
    /\ token_map # EmptyMap

\* C23: while the parse or the type check of a reparse is running, the session
\* is not held exclusively: a read-only query can read it.
C23_CompileDoesNotHoldSession ==
    (alive /\ pc \in {"stage1", "stage2"}) => CanRead

\* C24: only parse_project writes the token map and the diagnostics, and it
\* never changes the documents or the manifest; store_document and
\* remove_document change nothing but the documents.
C24_WritersOfIndexAndStore ==
    [][/\ (token_map' # token_map \/ diagnostics' # diagnostics)
            => call'.op = "parse_project"
       /\ call'.op = "parse_project" => UNCHANGED <<documents, manifest>>
       /\ call'.op \in {"store_document", "remove_document"}
            => UNCHANGED <<manifest, token_map, diagnostics>>]_vars

\* remove_document has removed a document from a session whose token map and
\* diagnostics hold entries
C24_Witness ==
    /\ call.op = "remove_document" /\ call.result.tag = "Ok"
    /\ token_map # EmptyMap
    /\ diagnostics # <<>>

\* C25: store_document on a URI that is not stored either returns Ok, when the
\* document is built, and then the store holds that URI besides what it held,
\* and a remove_document of the URI right after returns the stored document
\* and leaves the store as it was before the store_document; or it returns the
\* error of build_from_path and leaves the store as it was.
C25_StoreThenRemove ==
    [][\A u \in URIs :
         (call'.op = "store_document" /\ call'.arg = u /\ u \notin DOMAIN documents)
         => /\ call'.result.tag \in {"Ok", "DocumentNotFound"}
            /\ call'.result.tag = "Ok"
                 => /\ DOMAIN documents' = (DOMAIN documents) \cup {u}
                    /\ \A v \in DOMAIN documents : documents'[v] = documents[v]
                    /\ remove_document(documents', u).result
                         = Res("Ok", <<documents'[u]>>)
                    /\ remove_document(documents', u).documents = documents
            /\ call'.result.tag = "DocumentNotFound" => documents' = documents]_vars

\* store_document has stored a second document
C25_Witness ==
    /\ call.op = "store_document" /\ call.result.tag = "Ok"
    /\ Cardinality(DOMAIN documents) = 2

---------------------------------------------------------------------------
(* Properties of the typed walker, under SpecWalk *)

\* the node list the walker is run on
Nodes == attempt.checked.typed_program
\* the walker has walked a node: LastNode, inserting the keys of LastLog in
\* that order
Walked == call.op = "traverse_node" /\ call.arg > 0
LastNode == Nodes[call.arg]
LastLog == call.result.value
\* the walker has walked the whole node list
WalkDone == call.op = "traverse_node" /\ call.arg = Len(Nodes)

IsDeclaration(node, decl) ==
    node.content = "Declaration" /\ node.declaration.decl = decl

\* the key holds an entry of the typed kind
HoldsKind(ident, kind) ==
    /\ to_ident_key(ident) \in DOMAIN token_map
    /\ token_map[to_ident_key(ident)].type = "TypedToken"
    /\ token_map[to_ident_key(ident)].kind = kind

\* C13: after the typed walker has walked a typed program, every name-bearing
\* node has its entry under its own key, tagged with the node's kind: the key
\* of a function's name holds a TypedFunctionDeclaration entry and the key of
\* each of its parameters a TypedFunctionParameter entry (and likewise a
\* variable's name a TypedDeclaration entry, a struct's field a
\* TypedStructField entry), whatever else the program holds.
C13_NameBearingNodesTagged ==
    WalkDone
    => \A i \in DOMAIN Nodes :
         /\ IsDeclaration(Nodes[i], "FunctionDeclaration")
              => /\ HoldsKind(Nodes[i].declaration.name, "TypedFunctionDeclaration")
                 /\ \A j \in DOMAIN Nodes[i].declaration.parameters :
                      HoldsKind(Nodes[i].declaration.parameters[j].name,
                                "TypedFunctionParameter")
         /\ IsDeclaration(Nodes[i], "VariableDeclaration")
              => HoldsKind(Nodes[i].declaration.name, "TypedDeclaration")
         /\ IsDeclaration(Nodes[i], "StructDeclaration")
              => /\ HoldsKind(Nodes[i].declaration.name, "TypedDeclaration")
                 /\ \A j \in DOMAIN Nodes[i].declaration.fields :
                      HoldsKind(Nodes[i].declaration.fields[j].name,
                                "TypedStructField")

\* the keys the walker inserts, in order, when it walks the nodes, or the
\* expression, by themselves
LogOfNodes(nodes) == traverse_nodes(nodes, Tokens(EmptyMap)).log
LogOfExpression(expression) == handle_expression(expression, Tokens(EmptyMap)).log
KeysOf(log) == { log[i] : i \in DOMAIN log }
NameKeys(items) == { to_ident_key(items[i].name) : i \in DOMAIN items }

\* in the log, every insert of a key of A comes before every insert of a key
\* of B
Before(log, A, B) ==
    \A i, j \in DOMAIN log : (log[i] \in A /\ log[j] \in B) => i < j

\* C18 as claimed: walking a function declaration (or the methods of an impl
\* trait) inserts the name's and the parameters' entries before any entry of
\* the body, and walking a reassignment inserts the target's entry before any
\* entry of the right-hand expression.
C18_EntriesBeforeChildren ==
    Walked
    => /\ IsDeclaration(LastNode, "FunctionDeclaration")
            => LET d == LastNode.declaration
               IN Before(LastLog,
                         {to_ident_key(d.name)} \cup NameKeys(d.parameters),
                         KeysOf(LogOfNodes(d.body)))
       /\ IsDeclaration(LastNode, "ImplTrait")
            => \A m \in DOMAIN LastNode.declaration.methods :
                 LET method == LastNode.declaration.methods[m]
                 IN Before(LastLog,
                           {to_ident_key(method.name)} \cup NameKeys(method.parameters),
                           KeysOf(LogOfNodes(method.body)))
       /\ IsDeclaration(LastNode, "Reassignment")
            => Before(LastLog,
                      {to_ident_key(LastNode.declaration.lhs_base_name)},
                      KeysOf(LogOfExpression(LastNode.declaration.rhs)))

\* C18 as amended: walking a function declaration (or a method of an impl
\* trait) inserts the name's entry before any entry of the body and the
\* parameters' entries after every entry of the body; walking a reassignment
\* inserts the target's entry after every entry of the right-hand expression;
\* walking a variable declaration inserts the name's entry before any entry of
\* the initializer.
C18_NameBeforeBodyParametersAfter ==
    Walked
    => /\ IsDeclaration(LastNode, "FunctionDeclaration")
            => LET d == LastNode.declaration
               IN /\ Before(LastLog, {to_ident_key(d.name)}, KeysOf(LogOfNodes(d.body)))
                  /\ Before(LastLog, KeysOf(LogOfNodes(d.body)), NameKeys(d.parameters))
                  /\ LastLog = <<to_ident_key(d.name)>> \o LogOfNodes(d.body)
                                \o [j \in DOMAIN d.parameters |->
                                      to_ident_key(d.parameters[j].name)]
       /\ IsDeclaration(LastNode, "ImplTrait")
            => \A m \in DOMAIN LastNode.declaration.methods :
                 LET method == LastNode.declaration.methods[m]
                 IN /\ Before(LastLog, {to_ident_key(method.name)},
                              KeysOf(LogOfNodes(method.body)))
                    /\ Before(LastLog, KeysOf(LogOfNodes(method.body)),
                              NameKeys(method.parameters))
                    /\ NameKeys(method.parameters) \subseteq KeysOf(LastLog)
       /\ IsDeclaration(LastNode, "Reassignment")
            => LastLog = LogOfExpression(LastNode.declaration.rhs)
                         \o <<to_ident_key(LastNode.declaration.lhs_base_name)>>
       /\ IsDeclaration(LastNode, "VariableDeclaration")
            => LastLog = <<to_ident_key(LastNode.declaration.name)>>
                         \o LogOfExpression(LastNode.declaration.body)

\* the walker has walked an impl trait whose method has parameters and a body
\* that inserts entries, and then a reassignment with a right-hand expression
\* that inserts an entry
C18_Witness ==
    /\ WalkDone /\ Len(Nodes) = 2
    /\ IsDeclaration(Nodes[1], "ImplTrait")
    /\ \E m \in DOMAIN Nodes[1].declaration.methods :
         /\ Nodes[1].declaration.methods[m].parameters # <<>>
         /\ LogOfNodes(Nodes[1].declaration.methods[m].body) # <<>>
    /\ IsDeclaration(LastNode, "Reassignment")
    /\ LogOfExpression(LastNode.declaration.rhs) # <<>>
    /\ Len(LastLog) = 2

IsLeaf(node) ==
    /\ node.content = "Expression"
    /\ node.expr.expression \in
         {"Literal", "FunctionParameter", "AsmExpression", "EnumInstantiation"}

\* C19: walking a leaf expression (Literal, FunctionParameter, AsmExpression,
\* EnumInstantiation) inserts nothing and leaves the token map exactly as it
\* was.
C19_LeafLeavesTokenMap ==
    (Walked /\ IsLeaf(LastNode))
    => (LastLog = <<>> /\ token_map = attempt.prev_token_map)

\* the walker has walked an enum instantiation with a payload on a token map
\* that holds entries
C19_Witness ==
    /\ Walked /\ IsLeaf(LastNode)
    /\ LastNode.expr.expression = "EnumInstantiation"
    /\ LastNode.expr.contents # <<>>
    /\ token_map # EmptyMap

\* the keys of the path segments, method names, method parameters and method
\* bodies of an impl trait
ImplTraitKeys(declaration) ==
    { to_ident_key(declaration.trait_name.prefixes[i]) :
        i \in DOMAIN declaration.trait_name.prefixes }
    \cup { to_ident_key(declaration.trait_name.suffix) }
    \cup UNION { {to_ident_key(declaration.methods[m].name)}
                 \cup NameKeys(declaration.methods[m].parameters)
                 \cup KeysOf(LogOfNodes(declaration.methods[m].body)) :
                 m \in DOMAIN declaration.methods }

\* the keys of the return type spans of the methods of an impl trait
ReturnTypeKeys(declaration) ==
    { to_ident_key(Ident_new(declaration.methods[m].return_type_span)) :
        m \in DOMAIN declaration.methods }

\* C20 as claimed: the keys the walker writes for an impl trait are exactly one
\* per path segment of the trait's name, one per method name, one per method
\* parameter and the keys of the methods' bodies.
C20_ImplTraitKeysExactly ==
    (Walked /\ IsDeclaration(LastNode, "ImplTrait"))
    => KeysOf(LastLog) = ImplTraitKeys(LastNode.declaration)

\* C20 as amended: the keys the walker writes for an impl trait are exactly one
\* per path segment of the trait's name, one per method name, one per method
\* parameter, the keys of the methods' bodies, and one per method for the span
\* of its return type, which holds a TypedFunctionDeclaration entry.
C20_ImplTraitKeysWithReturnType ==
    (Walked /\ IsDeclaration(LastNode, "ImplTrait"))
    => /\ KeysOf(LastLog) = ImplTraitKeys(LastNode.declaration)
                             \cup ReturnTypeKeys(LastNode.declaration)
       /\ \A k \in ReturnTypeKeys(LastNode.declaration) :
            /\ k \in DOMAIN token_map
            /\ token_map[k].kind = "TypedFunctionDeclaration"

\* the walker has walked an impl trait with a path prefix and a method whose
\* return type span is no other key of the node
C20_Witness ==
    /\ Walked /\ IsDeclaration(LastNode, "ImplTrait")
    /\ LastNode.declaration.trait_name.prefixes # <<>>
    /\ LastNode.declaration.methods # <<>>
    /\ ReturnTypeKeys(LastNode.declaration) \cap ImplTraitKeys(LastNode.declaration) = {}
    /\ attempt.prev_token_map # EmptyMap

\* C26: the typed walker only inserts or overwrites: after it has walked a
\* node, the keys of the token map are the keys before the node together with
\* the keys the walker wrote, every entry under a key it wrote is a typed
\* token, and every entry under a key it did not write is the entry that was
\* there before.
C26_WalkerOnlyInsertsOrOverwrites ==
    Walked
    => /\ DOMAIN token_map = (DOMAIN attempt.prev_token_map) \cup KeysOf(LastLog)
       /\ \A k \in KeysOf(LastLog) : token_map[k].type = "TypedToken"
       /\ \A k \in (DOMAIN attempt.prev_token_map) \ KeysOf(LastLog) :
            token_map[k] = attempt.prev_token_map[k]

\* the walker has walked a node, overwriting a syntactic entry, adding a key
\* and leaving a syntactic entry under a key it did not write
C26_Witness ==
    /\ Walked
    /\ \E k \in KeysOf(LastLog) \cap DOMAIN attempt.prev_token_map :
         attempt.prev_token_map[k].type = "SyntacticToken"
    /\ KeysOf(LastLog) \ DOMAIN attempt.prev_token_map # {}
    /\ \E k \in (DOMAIN attempt.prev_token_map) \ KeysOf(LastLog) :
         token_map[k].type = "SyntacticToken"

\* C27: the typed walker terminates on every finite typed tree: each
\* traverse_node of the loop over a node list ends, its recursion descending
\* into the parts of the node, and the loop reaches the end of the list, so
\* the walk of a reparse whose compiler calls have returned ends.
C27_WalkTerminates == <>WalkDone

\* the walker has reached the end of a list that holds a while loop and a
\* return statement whose expression is an intrinsic function
C27_Witness ==
    /\ WalkDone /\ Len(Nodes) = 2
    /\ Nodes[1].content = "WhileLoop"
    /\ Nodes[2].content = "ReturnStatement"
    /\ Nodes[2].expr.expression = "IntrinsicFunction"
    /\ LastLog # <<>>

---------------------------------------------------------------------------
(* Properties of the IR test runner, under SpecRegions *)

\* the input has been split; the regions of the IR checks and of the ASM checks
HasSplit == call.op = "run" /\ call.result.tag = "split"
IrRegion == call.result.value[1]
AsmRegion == call.result.value[2]

\* the range lies within the input
ValidRange(region, input) ==
    0 <= region.begin /\ region.begin <= region.end /\ region.end <= input_len(input)

\* the two ranges share no byte
Disjoint(r1, r2) == r1.end <= r2.begin \/ r2.end <= r1.begin

\* C28: in the IR test runner, for every input and every position or absence
\* of the two tags, the region of the IR checks and the region of the ASM
\* checks are valid ranges of the input, the IR region starts at offset 0 when
\* the IR tag is missing, and the two regions do not overlap.
C28_RegionsValidAndDisjoint ==
    HasSplit
    => /\ ValidRange(IrRegion, call.arg)
       /\ find(call.arg, IrTag) = <<>> => IrRegion.begin = 0
       /\ AsmRegion # <<>>
            => /\ ValidRange(AsmRegion[1], call.arg)
               /\ Disjoint(IrRegion, AsmRegion[1])

=============================================================================
